---- MODULE Spec2Model ----
(***************************************************************************)
(* A model of wavdump (src/wavdump.c): main() reads a file name, a         *)
(* duration and a list of frequencies from the command line, validates     *)
(* them, synthesizes durationSeconds x 44100 signed 16-bit samples and     *)
(* writes them as a RIFF/WAVE file.                                        *)
(*                                                                         *)
(* Conventions of the model                                                *)
(*  - a C string is a sequence of one-character strings;                   *)
(*  - an `unsigned int` is a pair of 16-bit limbs [hi, lo], so that values *)
(*    up to 2^32-1 and arithmetic modulo 2^32 are exact;                   *)
(*  - an `int` that the program keeps in range is an integer;              *)
(*  - sinf is a fixed-point rational approximation of the sine with        *)
(*    values k / SinScale, a function of the harmonic's phase;             *)
(*  - the inner loop over j runs for every j in 0 .. waverate-1; the       *)
(*    sample values are tracked at the positions ProbeJs, the indices      *)
(*    written are tracked for every j.                                     *)
(***************************************************************************)
EXTENDS Integers, Sequences, FiniteSets, TLC

(***************************************************************************)
(* Bounds of the model and input alphabets                                 *)
(***************************************************************************)
MaxFreqs == 2

DurationArgs ==
  { <<"0">>, <<"x">>, <<"1">>, <<"2">>,
    <<"2","4","3","4","8">>, <<"4","8","6","9","6">>, <<"-","1">> }

FreqArgs ==
  { <<"1","9">>, <<"2","0">>, <<"4","4","0">>, <<"8","8","0">>,
    <<"2","2","0","5","0">>, <<"2","2","0","5","1">> }

ProbeJs == {0, 1, 25, 551, 44099}

(***************************************************************************)
(* unsigned int: 32 bits as two 16-bit limbs                               *)
(***************************************************************************)
Limb == 65536

U32(h, l) == [hi |-> h, lo |-> l]

U32Zero == U32(0, 0)

U32OfNat(n) == U32((n \div Limb) % Limb, n % Limb)

U32Add(a, b) ==
  LET l == a.lo + b.lo
  IN  U32((a.hi + b.hi + (l \div Limb)) % Limb, l % Limb)

U32Neg(a) ==
  IF a.lo = 0 THEN U32((Limb - a.hi) % Limb, 0)
              ELSE U32(Limb - 1 - a.hi, Limb - a.lo)

U32MulSmall(c, u) ==
  LET l == u.lo * c
  IN  U32((u.hi * c + (l \div Limb)) % Limb, l % Limb)

U32MulInt(c, u) ==
  U32Add(U32MulSmall(c % 256, u),
    U32MulSmall(256, U32Add(U32MulSmall((c \div 256) % 256, u),
      U32MulSmall(256, U32Add(U32MulSmall((c \div 65536) % 256, u),
        U32MulSmall(256, U32MulSmall((c \div 16777216) % 256, u)))))))

U32IsZero(a) == a.hi = 0 /\ a.lo = 0

U32LtNat(a, n) == a.hi = 0 /\ a.lo < n

U32GtNat(a, n) == a.hi > 0 \/ a.lo > n

NatLtU32(n, a) == a.hi > 0 \/ n < a.lo

ToInt32(a) ==
  IF a.hi >= Limb \div 2 THEN (a.hi - Limb) * Limb + a.lo
                         ELSE a.hi * Limb + a.lo

(***************************************************************************)
(* atol followed by the conversion of its long result to unsigned int      *)
(***************************************************************************)
Digits == {"0", "1", "2", "3", "4", "5", "6", "7", "8", "9"}

DigitVal(c) ==
  CASE c = "0" -> 0 [] c = "1" -> 1 [] c = "2" -> 2 [] c = "3" -> 3
    [] c = "4" -> 4 [] c = "5" -> 5 [] c = "6" -> 6 [] c = "7" -> 7
    [] c = "8" -> 8 [] c = "9" -> 9

RECURSIVE AtolDigits(_, _, _)
AtolDigits(s, pos, acc) ==
  IF pos > Len(s) \/ s[pos] \notin Digits THEN acc
  ELSE AtolDigits(s, pos + 1,
                  U32Add(U32MulSmall(10, acc), U32OfNat(DigitVal(s[pos]))))

Atol(s) ==
  IF Len(s) > 0 /\ s[1] = "-" THEN U32Neg(AtolDigits(s, 2, U32Zero))
  ELSE IF Len(s) > 0 /\ s[1] = "+" THEN AtolDigits(s, 2, U32Zero)
  ELSE AtolDigits(s, 1, U32Zero)

(***************************************************************************)
(* Program constants                                                       *)
(***************************************************************************)
MIN_FREQ == 20
MAX_FREQ == 22050

wavechnl == 1
wavebits == 16
waverate == MAX_FREQ * 2

(***************************************************************************)
(* sizeof of the three header structures: the sum of their fields' sizes   *)
(* (char[4] and unsigned int take 4 bytes, unsigned short 2; no padding).  *)
(***************************************************************************)
SizeofRiffhead == 4 + 4 + 4
SizeofFrmthead == 4 + 4 + 2 + 2 + 4 + 4 + 2 + 2
SizeofDatahead == 4 + 4

(***************************************************************************)
(* The environment: writable bytes that follow a heap block before the     *)
(* first unmapped page (the initial heap of the C library, 33 pages).      *)
(***************************************************************************)
HeapSlack == 33 * 4096

(***************************************************************************)
(* int to unsigned int, and the little-endian object representation that   *)
(* fwrite copies to the file                                               *)
(***************************************************************************)
U32OfInt(n) == U32((n \div Limb) % Limb, n % Limb)

BytesU32(u) == << u.lo % 256, u.lo \div 256, u.hi % 256, u.hi \div 256 >>

BytesU16(n) == << n % 256, (n \div 256) % 256 >>

(***************************************************************************)
(* sinf((2 * M_PI * f * j) / waverate) in units of 1 / SinScale.  The      *)
(* phase of the harmonic is f * j modulo waverate; the value on a half     *)
(* period is Bhaskara's rational approximation 16q / (5H^2 - 4q) with      *)
(* q = p (H - p), computed with q and H^2 divided by 100.                  *)
(***************************************************************************)
SinScale == 100

HalfPeriod == waverate \div 2

SinHalf(p) ==
  LET q == (p * (HalfPeriod - p)) \div 100
      hh == (HalfPeriod * HalfPeriod) \div 100
  IN  (16 * q * SinScale) \div (5 * hh - 4 * q)

Sinf(f, jj) ==
  LET p == (f * jj) % waverate
  IN  IF p <= HalfPeriod THEN SinHalf(p) ELSE 0 - SinHalf(p - HalfPeriod)

(***************************************************************************)
(* Conversion of a float n / d to short: truncation toward zero, then the  *)
(* low 16 bits of the integer.                                             *)
(***************************************************************************)
TruncDiv(n, d) == IF n >= 0 THEN n \div d ELSE 0 - ((0 - n) \div d)

ToShort(n) ==
  LET m == n % 65536 IN IF m >= 32768 THEN m - 65536 ELSE m

AmplitudeUndivided(n) == 32765

Amplitude(n) == 32765 \div n

SampleIndex(ii, jj) == ii * waverate + jj

NextProbe(jj) ==
  LET later == {p \in ProbeJs : p > jj}
  IN  IF later = {} THEN waverate
      ELSE CHOOSE p \in later : \A r \in later : p <= r

(***************************************************************************)
(* The set of sample indices written so far, kept as a set of maximal      *)
(* intervals <<lo, hi>>.                                                   *)
(***************************************************************************)
MinOf(S) == CHOOSE x \in S : \A y \in S : x <= y
MaxOf(S) == CHOOSE x \in S : \A y \in S : x >= y

AddInterval(S, lo, hi) ==
  IF lo > hi THEN S
  ELSE LET touching == {iv \in S : iv[1] <= hi + 1 /\ iv[2] >= lo - 1}
       IN  (S \ touching)
           \cup {<< MinOf({lo} \cup {iv[1] : iv \in touching}),
                    MaxOf({hi} \cup {iv[2] : iv \in touching}) >>}

VARIABLES
  pc,          \* position of main()
  argv,        \* the command line; argv[n + 1] is C's argv[n]
  filetime,    \* unsigned int
  freqsize,    \* unsigned int (argc - 3)
  freqbuff,    \* sequence of unsigned int; freqbuff[n + 1] is C's freqbuff[n]
  i, j, k,     \* loop counters
  shown,       \* index into C's argv that the last error report printed, or -1
  wavesize,    \* int
  wavebuff,    \* the pointer malloc returned: "unset", "NULL" or "heap"
  samples,     \* memory behind wavebuff at the tracked indices: index -> short
  written,     \* indices of wavebuff[] stored to so far, as maximal intervals
  fsum,        \* the float sum of the last `+=`, in units of 1 / SinScale
  heapCorrupt, \* a store landed beyond the allocated block
  riffhead, frmthead, datahead,
  ofile,       \* "unset", "NULL", "open" or "closed"
  file,        \* the fwrite calls on ofile, in order
  status       \* how the process ended: "running", "exit0", "return0", "SIGSEGV"

hdrs == <<riffhead, frmthead, datahead>>
synth == <<wavesize, wavebuff, samples, written, fsum, heapCorrupt>>

io == <<ofile, file>>

vars == <<pc, argv, filetime, freqsize, freqbuff, i, j, k, shown, synth, hdrs, io, status>>

argc == Len(argv)

Arg(n) == argv[n + 1]

RECURSIVE SeqsUpTo(_, _)
SeqsUpTo(S, n) ==
  IF n = 0 THEN {<<>>}
  ELSE LET shorter == SeqsUpTo(S, n - 1)
       IN  shorter \cup {Append(s, x) : s \in {t \in shorter : Len(t) = n - 1}, x \in S}

ProgName == <<"w">>
FileName == <<"a">>

Inputs ==
  { <<ProgName>>, <<ProgName, FileName>> }
  \cup { <<ProgName, FileName, d>> \o fs :
           d \in DurationArgs, fs \in SeqsUpTo(FreqArgs, MaxFreqs) }

Init ==
  /\ pc = "start"
  /\ argv \in Inputs
  /\ filetime = U32Zero
  /\ freqsize = 0
  /\ freqbuff = <<>>
  /\ i = 0 /\ j = 0 /\ k = 0
  /\ shown = -1
  /\ wavesize = 0
  /\ wavebuff = "unset"
  /\ samples = <<>>
  /\ written = {}
  /\ fsum = 0
  /\ heapCorrupt = FALSE
  /\ riffhead = <<>> /\ frmthead = <<>> /\ datahead = <<>>
  /\ ofile = "unset"
  /\ file = <<>>
  /\ status = "running"

(***************************************************************************)
(* Lines 62-83: read the command line, or print the usage and exit(0).     *)
(***************************************************************************)
ParseArgs ==
  /\ pc = "start"
  /\ IF argc > 3
     THEN /\ filetime' = Atol(Arg(2))
          /\ freqsize' = argc - 3
          /\ freqbuff' = [n \in 1 .. argc - 3 |-> Atol(Arg(3 + (n - 1)))]
          /\ i' = argc - 3
          /\ pc' = "check_time"
          /\ status' = status
     ELSE /\ pc' = "usage_exit"
          /\ status' = "exit0"
          /\ UNCHANGED <<filetime, freqsize, freqbuff, i>>
  /\ UNCHANGED <<argv, j, k, shown, synth, hdrs, io>>

(***************************************************************************)
(* Lines 87-92: a zero duration is reported with argv[2] and exit(0).      *)
(***************************************************************************)
CheckFiletime ==
  /\ pc = "check_time"
  /\ IF U32IsZero(filetime)
     THEN /\ pc' = "exit_invalid"
          /\ status' = "exit0"
          /\ shown' = 2
          /\ i' = i
     ELSE /\ pc' = "check_freq"
          /\ i' = 0
          /\ UNCHANGED <<shown, status>>
  /\ UNCHANGED <<argv, filetime, freqsize, freqbuff, j, k, synth, hdrs, io>>

FreqOutOfRangeExclusive(f) ==
  (f.hi = 0 /\ f.lo <= MIN_FREQ) \/ U32GtNat(f, MAX_FREQ - 1)

FreqOutOfRange(f) == U32LtNat(f, MIN_FREQ) \/ U32GtNat(f, MAX_FREQ)

ReportIndex(n) == 5 + n

(***************************************************************************)
(* Lines 94-101: one iteration of the validation loop.  The report prints  *)
(* argv[ReportIndex(i)] with %s; reading argv[] at or beyond argc has no   *)
(* defined result: the report shows some other string or the process       *)
(* faults.                                                                 *)
(***************************************************************************)
CheckFreq ==
  /\ pc = "check_freq"
  /\ IF i < freqsize
     THEN IF FreqOutOfRange(freqbuff[i + 1])
          THEN /\ shown' = ReportIndex(i)
               /\ i' = i
               /\ \/ pc' = "exit_invalid" /\ status' = "exit0"
                  \/ /\ ReportIndex(i) >= argc
                     /\ pc' = "crashed" /\ status' = "SIGSEGV"
          ELSE /\ i' = i + 1
               /\ pc' = "check_freq"
               /\ UNCHANGED <<shown, status>>
     ELSE /\ pc' = "alloc"
          /\ UNCHANGED <<i, shown, status>>
  /\ UNCHANGED <<argv, filetime, freqsize, freqbuff, j, k, synth, hdrs, io>>

(***************************************************************************)
(* Lines 114-124: the byte size of the sample buffer and its allocation.   *)
(* int * unsigned int is computed modulo 2^32 and converted to int; malloc *)
(* takes the int converted to size_t, so a negative size is a request for  *)
(* more than the address space holds and yields NULL.  The step ends at    *)
(* the initialisation i = 0 of the loop of line 142.                       *)
(***************************************************************************)
WaveSize(ft) == ToInt32(U32MulInt(wavechnl * (wavebits \div 8) * waverate, ft))

AllocWave ==
  /\ pc = "alloc"
  /\ wavesize' = WaveSize(filetime)
  /\ wavebuff' = IF wavesize' < 0 THEN "NULL" ELSE "heap"
  /\ i' = 0
  /\ pc' = "loop_i"
  /\ UNCHANGED <<argv, filetime, freqsize, freqbuff, j, k, shown, samples, written, fsum, heapCorrupt,
                 hdrs, io, status>>

(***************************************************************************)
(* A store to wavebuff[lo .. hi].  Through a NULL pointer it faults.       *)
(* Within the block it succeeds.  Beyond the block it has no defined       *)
(* result: it lands in the heap that follows the block (at most HeapSlack  *)
(* bytes are mapped there) or it faults.                                   *)
(***************************************************************************)
StoreInBlock(hi) == wavebuff = "heap" /\ 2 * hi + 2 <= wavesize

StoreOverruns(hi) ==
  /\ wavebuff = "heap"
  /\ 2 * hi + 2 > wavesize
  /\ (2 * hi + 2) - wavesize <= HeapSlack

StoreFaults(hi) == wavebuff = "NULL" \/ 2 * hi + 2 > wavesize

Crash ==
  /\ pc' = "crashed"
  /\ status' = "SIGSEGV"

(***************************************************************************)
(* Line 142: the test of the loop over the seconds.                        *)
(***************************************************************************)
LoopI ==
  /\ pc = "loop_i"
  /\ IF NatLtU32(i, filetime)
     THEN /\ j' = 0
          /\ pc' = "loop_j"
     ELSE /\ pc' = "headers"
          /\ j' = j
  /\ UNCHANGED <<argv, filetime, freqsize, freqbuff, i, k, shown, synth, hdrs, io, status>>

(***************************************************************************)
(* Lines 143-144 at a tracked position: the test of the loop over the      *)
(* samples of a second and the store of 0.                                 *)
(***************************************************************************)
LoopJ ==
  /\ pc = "loop_j"
  /\ j \in ProbeJs \/ j >= waverate
  /\ IF j < waverate
     THEN LET idx == SampleIndex(i, j)
          IN  /\ i' = i
              /\ \/ /\ StoreInBlock(idx) \/ StoreOverruns(idx)
                    /\ samples' = [n \in DOMAIN samples \cup {idx} |->
                                     IF n = idx THEN 0 ELSE samples[n]]
                    /\ written' = AddInterval(written, idx, idx)
                    /\ heapCorrupt' = (heapCorrupt \/ StoreOverruns(idx))
                    /\ k' = 0
                    /\ pc' = "loop_k"
                    /\ status' = status
                 \/ /\ StoreFaults(idx)
                    /\ Crash
                    /\ UNCHANGED <<samples, written, heapCorrupt, k>>
     ELSE /\ i' = i + 1
          /\ pc' = "loop_i"
          /\ UNCHANGED <<samples, written, heapCorrupt, k, status>>
  /\ UNCHANGED <<argv, filetime, freqsize, freqbuff, j, shown, wavesize, wavebuff, fsum, hdrs, io>>

(***************************************************************************)
(* Lines 143-149 between two tracked positions: the iterations             *)
(* j .. NextProbe(j) - 1 store to wavebuff[i * waverate + j] each; their   *)
(* values are not tracked.                                                 *)
(***************************************************************************)
LoopJUntracked ==
  /\ pc = "loop_j"
  /\ j \notin ProbeJs /\ j < waverate
  /\ LET lo == SampleIndex(i, j)
         hi == SampleIndex(i, NextProbe(j) - 1)
     IN  \/ /\ StoreInBlock(hi) \/ StoreOverruns(hi)
            /\ written' = AddInterval(written, lo, hi)
            /\ heapCorrupt' = (heapCorrupt \/ StoreOverruns(hi))
            /\ j' = NextProbe(j)
            /\ UNCHANGED <<pc, status>>
         \/ /\ StoreFaults(hi)
            /\ Crash
            /\ UNCHANGED <<written, heapCorrupt, j>>
  /\ UNCHANGED <<argv, filetime, freqsize, freqbuff, i, k, shown, wavesize, wavebuff, samples, fsum,
                 hdrs, io>>

(***************************************************************************)
(* Lines 146-148: one harmonic.  The short is converted to float, the      *)
(* product sinf(..) * (32765 / freqsize) is added, and the sum is          *)
(* converted back to short.                                                *)
(***************************************************************************)
Contribution(f, jj, n) == Sinf(f, jj) * Amplitude(n)

Accumulate(old, c) == old * SinScale + c

LoopKAt(t) ==
  /\ pc = "loop_k"
  /\ IF k < freqsize
     THEN LET idx == SampleIndex(i, j)
              sum == Accumulate(samples[idx],
                                Contribution(freqbuff[k + 1].lo, t, freqsize))
          IN  /\ fsum' = sum
              /\ samples' = [samples EXCEPT ![idx] = ToShort(TruncDiv(sum, SinScale))]
              /\ k' = k + 1
              /\ UNCHANGED <<pc, j>>
     ELSE /\ j' = j + 1
          /\ pc' = "loop_j"
          /\ UNCHANGED <<fsum, samples, k>>
  /\ UNCHANGED <<argv, filetime, freqsize, freqbuff, i, shown, wavesize,
                 wavebuff, written, heapCorrupt, hdrs, io, status>>

LoopKDrift == LoopKAt(i + j)

LoopK == LoopKAt(j)

(***************************************************************************)
(* Lines 158-182: the three header structures, and the bytes of each as    *)
(* fwrite copies them from memory (fields in order, little-endian).        *)
(***************************************************************************)
MakeRiffheadWholeFile(ws) ==
  [ chunk0id   |-> <<82, 73, 70, 70>>,
    chunk0size |-> U32Add(U32OfInt(SizeofRiffhead + SizeofFrmthead + SizeofDatahead),
                          U32OfInt(ws)),
    format     |-> <<87, 65, 86, 69>> ]

MakeRiffhead(ws) ==
  [ chunk0id   |-> <<82, 73, 70, 70>>,
    chunk0size |-> U32Add(U32OfInt(SizeofRiffhead + SizeofFrmthead + SizeofDatahead - 8),
                          U32OfInt(ws)),
    format     |-> <<87, 65, 86, 69>> ]

MakeFrmtheadBitRate ==
  [ chunk1id      |-> <<102, 109, 116, 32>>,
    clsize        |-> U32OfInt(SizeofFrmthead - 8),
    audioformat   |-> 1,
    audiochannels |-> wavechnl % 65536,
    samplerate    |-> U32OfInt(waverate),
    byterate      |-> U32OfInt(wavechnl * wavebits * waverate),
    blockalign    |-> (wavechnl * (wavebits \div 8)) % 65536,
    bitspersample |-> wavebits % 65536 ]

MakeFrmthead ==
  [ chunk1id      |-> <<102, 109, 116, 32>>,
    clsize        |-> U32OfInt(SizeofFrmthead - 8),
    audioformat   |-> 1,
    audiochannels |-> wavechnl % 65536,
    samplerate    |-> U32OfInt(waverate),
    byterate      |-> U32OfInt(wavechnl * (wavebits \div 8) * waverate),
    blockalign    |-> (wavechnl * (wavebits \div 8)) % 65536,
    bitspersample |-> wavebits % 65536 ]

MakeDatahead(ws) ==
  [ chunk2id   |-> <<100, 97, 116, 97>>,
    chunk2size |-> U32OfInt(ws) ]

RiffBytes(r) == r.chunk0id \o BytesU32(r.chunk0size) \o r.format

FrmtBytes(f) ==
  f.chunk1id \o BytesU32(f.clsize) \o BytesU16(f.audioformat)
  \o BytesU16(f.audiochannels) \o BytesU32(f.samplerate)
  \o BytesU32(f.byterate) \o BytesU16(f.blockalign) \o BytesU16(f.bitspersample)

DataBytes(d) == d.chunk2id \o BytesU32(d.chunk2size)

BuildHeaders ==
  /\ pc = "headers"
  /\ riffhead' = MakeRiffhead(wavesize)
  /\ frmthead' = MakeFrmthead
  /\ datahead' = MakeDatahead(wavesize)
  /\ pc' = "fopen"
  /\ UNCHANGED <<argv, filetime, freqsize, freqbuff, i, j, k, shown, synth,
                 io, status>>

(***************************************************************************)
(* Lines 191-201: fopen(filename, "wb"); on failure a report, the two      *)
(* free() calls and exit(0).                                               *)
(***************************************************************************)
Fopen ==
  /\ pc = "fopen"
  /\ \/ /\ ofile' = "open"
        /\ pc' = "write_riff"
        /\ status' = status
     \/ /\ ofile' = "NULL"
        /\ pc' = "exit_open_failed"
        /\ status' = "exit0"
  /\ UNCHANGED <<argv, filetime, freqsize, freqbuff, i, j, k, shown, synth,
                 hdrs, file>>

(***************************************************************************)
(* fwrite(ptr, 1, size, ofile): returns the number of bytes written, which *)
(* is size on success and less on an error.  main() ignores the result.    *)
(***************************************************************************)
FwriteResults(size) == {0, size \div 2, size}

Fwrite(src, bytes, size, next) ==
  /\ ofile = "open"
  /\ \E ret \in FwriteResults(size) :
       file' = Append(file, [src |-> src, size |-> size, ret |-> ret,
                             bytes |-> bytes])
  /\ pc' = next
  /\ UNCHANGED <<argv, filetime, freqsize, freqbuff, i, j, k, shown, synth,
                 hdrs, ofile, status>>

FwriteRiff ==
  /\ pc = "write_riff"
  /\ Fwrite("riffhead", RiffBytes(riffhead), SizeofRiffhead, "write_frmt")

FwriteFrmtAfterData ==
  /\ pc = "write_frmt"
  /\ Fwrite("datahead", DataBytes(datahead), SizeofDatahead, "write_data")

FwriteFrmt ==
  /\ pc = "write_frmt"
  /\ Fwrite("frmthead", FrmtBytes(frmthead), SizeofFrmthead, "write_data")

FwriteData ==
  /\ pc = "write_data"
  /\ Fwrite("datahead", DataBytes(datahead), SizeofDatahead, "write_wave")

(***************************************************************************)
(* Line 207: the sample bytes; they are not materialised in the model.     *)
(***************************************************************************)
FwriteWave ==
  /\ pc = "write_wave"
  /\ Fwrite("wavebuff", <<>>, wavesize, "fclose")

(***************************************************************************)
(* Lines 211-216: fclose, the two free() calls and return 0.               *)
(***************************************************************************)
Fclose ==
  /\ pc = "fclose"
  /\ ofile' = "closed"
  /\ pc' = "done"
  /\ status' = "return0"
  /\ UNCHANGED <<argv, filetime, freqsize, freqbuff, i, j, k, shown, synth,
                 hdrs, file>>

Next ==
  \/ ParseArgs
  \/ CheckFiletime
  \/ CheckFreq
  \/ AllocWave
  \/ LoopI
  \/ LoopJ
  \/ LoopJUntracked
  \/ LoopK
  \/ BuildHeaders
  \/ Fopen
  \/ FwriteRiff
  \/ FwriteFrmt
  \/ FwriteData
  \/ FwriteWave
  \/ Fclose

Spec == Init /\ [][Next]_vars
(***************************************************************************)
(* Helpers of the properties: a reader of the file's little-endian fields, *)
(* the samples whose computation is finished, the extent of the stores.    *)
(***************************************************************************)
ReadU32(b, off) == U32(b[off + 2] + 256 * b[off + 3], b[off] + 256 * b[off + 1])

ReadU16(b, off) == b[off] + 256 * b[off + 1]

InProgress(n) == pc = "loop_k" /\ n = SampleIndex(i, j)

Synthesized == wavesize >= 0 /\ written = {<<0, (wavesize \div 2) - 1>>}

AfterSynthesis ==
  pc \in {"headers", "fopen", "exit_open_failed", "write_riff", "write_frmt",
          "write_data", "write_wave", "fclose", "done"}

ValidRequest ==
  /\ argc > 3
  /\ ~ U32IsZero(Atol(Arg(2)))
  /\ \A n \in 3 .. argc - 1 :
       Atol(Arg(n)).hi = 0 /\ Atol(Arg(n)).lo >= 20 /\ Atol(Arg(n)).lo <= 22050

(***************************************************************************)
(* C1.  Once the sample buffer is allocated its byte size is               *)
(* 2 x durationSeconds x 44100, every store of the synthesis loops goes to *)
(* an index in 0 .. durationSeconds x 44100 - 1, and after the loops       *)
(* exactly these indices have been stored to.                              *)
(***************************************************************************)
C1_BufferHoldsDurationTimesRate ==
  wavebuff # "unset" =>
    /\ wavesize >= 0
    /\ wavesize % (2 * waverate) = 0
    /\ filetime = U32OfNat(wavesize \div (2 * waverate))
    /\ wavebuff = "heap"
    /\ \A iv \in written : iv[1] >= 0 /\ 2 * iv[2] + 2 <= wavesize
    /\ AfterSynthesis => Synthesized

(***************************************************************************)
(* C2.  Every stored sample and every intermediate value of the per-sample *)
(* accumulator stays in the 16-bit range: after kk harmonics the float sum *)
(* is at most kk x (32765 / harmonicCount) in magnitude, hence within      *)
(* [-32765, 32765], and so is every stored sample.                         *)
(***************************************************************************)
Abs(x) == IF x >= 0 THEN x ELSE 0 - x

C2_AccumulatorInRange ==
  /\ Abs(fsum) <= 32765 * SinScale
  /\ \A n \in DOMAIN samples : samples[n] >= -32765 /\ samples[n] <= 32765
  /\ pc = "loop_k" =>
       /\ Abs(fsum) <= k * (32765 \div freqsize) * SinScale \/ k = 0
       /\ Abs(samples[SampleIndex(i, j)]) <= k * (32765 \div freqsize)

C2_Witness ==
  /\ pc = "loop_k"
  /\ freqsize >= 2
  /\ k = freqsize
  /\ Abs(samples[SampleIndex(i, j)]) > 32765 \div freqsize

(***************************************************************************)
(* C3.  The size fields written to the file agree with the sample buffer:  *)
(* the data chunk size is 2 x (number of samples) = durationSeconds x      *)
(* 44100 x 2, and the RIFF chunk size is 36 + the data chunk size, the     *)
(* number of bytes handed to the file after the RIFF chunk-size field.     *)
(***************************************************************************)
C3_SizesOf(n) ==
  /\ filetime = U32OfNat(n \div (2 * waverate))
  /\ n % (2 * waverate) = 0
  /\ written = {<<0, (n \div 2) - 1>>}
  /\ datahead.chunk2size = U32OfNat(n)
  /\ riffhead.chunk0size = U32OfNat(36 + n)
  /\ Len(file) >= 1 => ReadU32(file[1].bytes, 5) = U32OfNat(36 + n)
  /\ Len(file) >= 3 => ReadU32(file[3].bytes, 5) = U32OfNat(n)
  /\ Len(file) = 4 =>
       /\ file[4].size = n
       /\ file[1].size + file[2].size + file[3].size + file[4].size - 8 = 36 + n

C3_ChunkSizesAgree ==
  pc \in {"fopen", "exit_open_failed", "write_riff", "write_frmt", "write_data",
          "write_wave", "fclose", "done"}
    => wavesize >= 0 /\ C3_SizesOf(wavesize)

C3_Witness ==
  /\ pc = "done"
  /\ filetime = U32(0, 2)
  /\ \A n \in 1 .. 4 : file[n].ret = file[n].size

(***************************************************************************)
(* C4.  Reading back the format chunk handed to the file yields the magic  *)
(* "fmt ", sub-chunk size 16, audio format 1, 1 channel, 44100 samples per *)
(* second, byte rate 88200, block align 2 and 16 bits per sample, whatever *)
(* the duration and the frequency list.                                    *)
(***************************************************************************)
C4_FormatChunkRoundTrip ==
  Len(file) >= 2 =>
    LET b == file[2].bytes
    IN  /\ Len(b) = 24
        /\ SubSeq(b, 1, 4) = <<102, 109, 116, 32>>
        /\ ReadU32(b, 5) = U32(0, 16)
        /\ ReadU16(b, 9) = 1
        /\ ReadU16(b, 11) = 1
        /\ ReadU32(b, 13) = U32(0, 44100)
        /\ ReadU32(b, 17) = U32(1, 88200 - 65536)
        /\ ReadU32(b, 17) = U32OfNat(44100 * ReadU16(b, 11) * (ReadU16(b, 23) \div 8))
        /\ ReadU16(b, 21) = 2
        /\ ReadU16(b, 21) = ReadU16(b, 11) * (ReadU16(b, 23) \div 8)
        /\ ReadU16(b, 23) = 16

C4_Witness ==
  /\ Len(file) >= 2
  /\ file[1].ret = 12 /\ file[2].ret = 24
  /\ filetime = U32(0, 2)
  /\ freqsize = 2

(***************************************************************************)
(* C5.  With the file open the writes are the 12-byte RIFF header, the     *)
(* 24-byte format header, the 8-byte data header and the sample bytes, in  *)
(* this order, each once and nothing else; none happens before the whole   *)
(* buffer is synthesized nor after the file is closed.                     *)
(***************************************************************************)
WritesDoneAt(p) ==
  CASE p = "write_frmt" -> 1
    [] p = "write_data" -> 2
    [] p = "write_wave" -> 3
    [] p \in {"fclose", "done"} -> 4
    [] OTHER -> 0

C5_WriteOrder ==
  /\ Len(file) = WritesDoneAt(pc)
  /\ \A n \in DOMAIN file :
       /\ file[n].src = <<"riffhead", "frmthead", "datahead", "wavebuff">>[n]
       /\ file[n].size = <<12, 24, 8, wavesize>>[n]
  /\ file # <<>> => Synthesized /\ AfterSynthesis /\ ofile \in {"open", "closed"}
  /\ ofile = "open" <=> pc \in {"write_riff", "write_frmt", "write_data",
                                "write_wave", "fclose"}
  /\ ofile = "closed" <=> pc = "done"

C5_Witness ==
  /\ pc = "done"
  /\ Len(file) = 4
  /\ ofile = "closed"

(***************************************************************************)
(* C6.  A run in which one of the four writes failed or was short ends in  *)
(* a WriteFailed outcome, not in the outcome of a successful run.          *)
(***************************************************************************)
C6_WriteFailureSurfaced ==
  (pc = "done" /\ \E n \in DOMAIN file : file[n].ret < file[n].size)
    => status = "WriteFailed"

(***************************************************************************)
(* C7.  A request with at least one frequency reaches the allocation of    *)
(* the sample buffer if and only if its parsed duration is not 0 and every *)
(* frequency is in [20, 22050]; a rejected request ends with no sample     *)
(* buffer allocated, no sample synthesized and no file opened.             *)
(***************************************************************************)
C7_ValidationGates ==
  /\ wavebuff # "unset" \/ pc = "alloc" => ValidRequest
  /\ pc = "exit_invalid" \/ (pc = "crashed" /\ wavebuff = "unset")
       => argc > 3 /\ ~ ValidRequest
  /\ pc = "check_time" => ENABLED CheckFiletime
  /\ pc = "check_freq" => ENABLED CheckFreq
  /\ pc = "alloc" => ENABLED AllocWave
  /\ pc \in {"usage_exit", "exit_invalid"} \/ (pc = "crashed" /\ shown >= 0)
       => /\ wavebuff = "unset" /\ samples = <<>> /\ written = {}
          /\ ofile = "unset" /\ file = <<>>

C7_Witness ==
  /\ pc = "exit_invalid"
  /\ freqsize = 2
  /\ i = 1
  /\ freqbuff[1] = U32(0, 20)
  /\ freqbuff[2] = U32(0, 22051)
  /\ wavebuff = "unset"

(***************************************************************************)
(* C8.  Every finished sample at index n equals the sample at index        *)
(* n mod 44100: each one-second block repeats the first.                   *)
(***************************************************************************)
C8_PerSecondReset ==
  \A n \in DOMAIN samples :
    /\ (n % waverate) \in DOMAIN samples
    /\ ~ InProgress(n) => samples[n] = samples[n % waverate]

C8_Witness ==
  /\ pc = "done"
  /\ \E n \in DOMAIN samples :
       n >= waverate /\ samples[n] # 0 /\ samples[n] = samples[n % waverate]

(***************************************************************************)
(* C9.  Every finished sample equals the truncation toward zero, applied   *)
(* once to the complete sum, of the contributions sin(..) * (32765 /       *)
(* harmonicCount) with the exact quotient.                                 *)
(***************************************************************************)
RECURSIVE SumOfSines(_, _)
SumOfSines(kk, jj) ==
  IF kk = 0 THEN 0
  ELSE SumOfSines(kk - 1, jj) + Sinf(freqbuff[kk].lo, jj) * 32765

C9_TruncatedOnceExactQuotient ==
  \A n \in DOMAIN samples :
    ~ InProgress(n)
      => samples[n] = TruncDiv(SumOfSines(freqsize, n % waverate),
                               freqsize * SinScale)

(***************************************************************************)
(* C10.  When validation rejects the frequency at position i of the list,  *)
(* the argument the report prints is argv[3 + i], and its index is less    *)
(* than argc.                                                              *)
(***************************************************************************)
C10_ReportReadsOffendingArgument ==
  shown >= 3 => shown = 3 + i /\ shown < argc

====
